---- MODULE Spec2Model ----
(***************************************************************************)
(* Model of the es1 renderbuffer object model of                           *)
(* src/OpenGL/libGLES_CM/Renderbuffer.cpp: one Renderbuffer handle, the    *)
(* RenderbufferInterface realizations it can hold (RenderbufferTexture2D,  *)
(* Colorbuffer, DepthStencilbuffer, Depthbuffer, Stencilbuffer), the       *)
(* reference-counted egl::Image objects behind them and the Texture2D a    *)
(* proxy forwards to.                                                      *)
(***************************************************************************)
EXTENDS Integers, FiniteSets, Sequences, TLC

\* ------------------------------------------------------------------ bounds
MaxDim == 1          \* widths and heights are drawn from -1 .. MaxDim
MaxRefs == 2         \* references callers take on the Renderbuffer handle
MaxHeld == 1         \* Image references callers hold at the same time

Dims == -1 .. MaxDim
PosDims == 1 .. MaxDim
\* the egl::Image objects that can exist at the same time
ImageIds == {1, 2}
\* the RenderbufferStorage objects that can exist at the same time: the
\* installed one and the one to install next
StorageIds == {1, 2}
NullImage == 0                 \* the null egl::Image pointer

\* ------------------------------------------------------------ enumerators
ColorFormats == {"GL_RGBA4_OES", "GL_RGB565_OES"}
SampleRequests == {0, 3, 8}
SupportedSamples == {0, 2, 4}
StorageKinds == {"Colorbuffer", "DepthStencilbuffer", "Depthbuffer", "Stencilbuffer"}
DepthKinds == {"DepthStencilbuffer", "Depthbuffer", "Stencilbuffer"}
\* the storage classes the handle is first constructed over, and those that
\* are installed into it later
FirstKinds == {"Colorbuffer", "Depthbuffer"}
HandleKinds == {"Colorbuffer"}
\* internal formats and depth fields of Images made outside this file (EGL
\* surfaces, texture levels) that wrap mode can be handed
ExternalColorFormats == {"FORMAT_A8B8G8R8", "FORMAT_R5G6B5"}
ExternalDepthFormats == {"FORMAT_D24S8", "FORMAT_D16"}
ExternalDepths == {2, 5}

\* ------------------------------------------------- external collaborators
\* es2sw::ConvertRenderbufferFormat: API renderbuffer format -> sw::Format
ConvertRenderbufferFormat(format) ==
    CASE format \in {"GL_RGBA4_OES", "GL_RGB5_A1_OES", "GL_RGBA8_OES"} -> "FORMAT_A8B8G8R8"
      [] format = "GL_RGB565_OES" -> "FORMAT_R5G6B5"
      [] format = "GL_RGB8_OES" -> "FORMAT_X8B8G8R8"
      [] format \in {"GL_DEPTH_COMPONENT16_OES", "GL_STENCIL_INDEX8_OES",
                     "GL_DEPTH24_STENCIL8_OES"} -> "FORMAT_D24S8"
      [] OTHER -> "FORMAT_A8B8G8R8"

\* sw2es::ConvertBackBufferFormat: sw::Format of a colour surface -> API format
ConvertBackBufferFormat(internalFormat) ==
    CASE internalFormat = "FORMAT_A4R4G4B4" -> "GL_RGBA4_OES"
      [] internalFormat \in {"FORMAT_A8R8G8B8", "FORMAT_A8B8G8R8"} -> "GL_RGBA8_OES"
      [] internalFormat = "FORMAT_A1R5G5B5" -> "GL_RGB5_A1_OES"
      [] internalFormat = "FORMAT_R5G6B5" -> "GL_RGB565_OES"
      [] internalFormat \in {"FORMAT_X8R8G8B8", "FORMAT_X8B8G8R8"} -> "GL_RGB8_OES"
      [] OTHER -> "GL_RGBA4_OES"

\* sw2es::ConvertDepthStencilFormat: sw::Format of a depth surface -> API format
ConvertDepthStencilFormat(internalFormat) ==
    CASE internalFormat \in {"FORMAT_D16", "FORMAT_D24X8", "FORMAT_D32"} -> "GL_DEPTH_COMPONENT16_OES"
      [] internalFormat = "FORMAT_D24S8" -> "GL_DEPTH24_STENCIL8_OES"
      [] OTHER -> "GL_DEPTH24_STENCIL8_OES"

\* Context::getSupportedMultisampleCount: the largest supported count that
\* does not exceed the request
getSupportedMultisampleCount(requested) ==
    LET below == {s \in SupportedSamples : s <= requested}
    IN  IF below = {} THEN 0 ELSE CHOOSE s \in below : \A t \in below : t <= s

\* an egl::Image slot that holds no object
NoImage ==
    [refs |-> 0, width |-> 0, height |-> 0, depth |-> 0,
     internalFormat |-> "FORMAT_NULL", shared |-> FALSE]

\* egl::Image::addRef
ImageAddRef(imgs, i) == [imgs EXCEPT ![i].refs = @ + 1]

\* egl::Image::release: the Image is destroyed with its last reference
ImageRelease(imgs, i) ==
    IF imgs[i].refs <= 1 THEN [imgs EXCEPT ![i] = NoImage]
    ELSE [imgs EXCEPT ![i].refs = @ - 1]

\* egl::Image::markShared
ImageMarkShared(imgs, i) == [imgs EXCEPT ![i].shared = TRUE]

FreeImageIds(imgs) == {i \in ImageIds : imgs[i].refs = 0}

\* egl::Image::create as the device and the texture use it: a new Image that
\* carries one reference, owned by whoever asked for it
NewImage(imgs, i, width, height, depth, internalFormat) ==
    [imgs EXCEPT ![i] = [refs |-> 1, width |-> width, height |-> height,
                         depth |-> depth, internalFormat |-> internalFormat,
                         shared |-> FALSE]]

\* Device::createRenderTarget / Device::createDepthStencilSurface: the new
\* surface, or null when the device cannot produce one (avail = FALSE, or
\* no room is left)
DeviceCreate(imgs, width, height, internalFormat, samples, avail) ==
    IF avail /\ FreeImageIds(imgs) # {}
    THEN LET i == CHOOSE k \in FreeImageIds(imgs) : \A j \in FreeImageIds(imgs) : k <= j
         IN  [image |-> i, imgs |-> NewImage(imgs, i, width, height, samples, internalFormat)]
    ELSE [image |-> NullImage, imgs |-> imgs]

\* ----------------------------------------------------- RenderbufferStorage
\* RenderbufferStorage::RenderbufferStorage, with the derived class's Image
\* pointer as its member initializer leaves it
RenderbufferStorage(kind, image) ==
    [kind |-> kind, life |-> "live", mWidth |-> 0, mHeight |-> 0,
     format |-> "GL_RGBA4_OES", internalFormat |-> "FORMAT_A8B8G8R8",
     mSamples |-> 0, image |-> image]

\* a RenderbufferStorage slot that holds no object
NoStorage ==
    [kind |-> "none", life |-> "free", mWidth |-> 0, mHeight |-> 0,
     format |-> "none", internalFormat |-> "FORMAT_NULL",
     mSamples |-> 0, image |-> NullImage]

\* renderTarget->getDepth() & ~1
ClearLowBit(depth) == depth - (depth % 2)

\* What a constructor leaves: the object, the Images, the device calls it
\* made and the errors it raised.
Built(st, imgs, devCalls, errs) ==
    [st |-> st, imgs |-> imgs, devCalls |-> devCalls, errs |-> errs]

\* Colorbuffer(egl::Image*) with the sample count taken from getDepth()
\* as it is, the low bit not cleared
ColorbufferWrapKeepsLowBit(imgs, renderTarget) ==
    LET base == RenderbufferStorage("Colorbuffer", renderTarget)
    IN  IF renderTarget # NullImage
        THEN Built([base EXCEPT
                        !.mWidth = imgs[renderTarget].width,
                        !.mHeight = imgs[renderTarget].height,
                        !.internalFormat = imgs[renderTarget].internalFormat,
                        !.format = ConvertBackBufferFormat(imgs[renderTarget].internalFormat),
                        !.mSamples = imgs[renderTarget].depth],
                   ImageAddRef(imgs, renderTarget), 0, 0)
        ELSE Built(base, imgs, 0, 0)

\* Colorbuffer(egl::Image*) that keeps the pointer without taking a
\* reference of its own
ColorbufferWrapNoAddRef(imgs, renderTarget) ==
    LET base == RenderbufferStorage("Colorbuffer", renderTarget)
    IN  IF renderTarget # NullImage
        THEN Built([base EXCEPT
                        !.mWidth = imgs[renderTarget].width,
                        !.mHeight = imgs[renderTarget].height,
                        !.internalFormat = imgs[renderTarget].internalFormat,
                        !.format = ConvertBackBufferFormat(imgs[renderTarget].internalFormat),
                        !.mSamples = ClearLowBit(imgs[renderTarget].depth)],
                   imgs, 0, 0)
        ELSE Built(base, imgs, 0, 0)

\* Colorbuffer::Colorbuffer(egl::Image *renderTarget)
ColorbufferWrap(imgs, renderTarget) ==
    LET base == RenderbufferStorage("Colorbuffer", renderTarget)
    IN  IF renderTarget # NullImage
        THEN Built([base EXCEPT
                        !.mWidth = imgs[renderTarget].width,
                        !.mHeight = imgs[renderTarget].height,
                        !.internalFormat = imgs[renderTarget].internalFormat,
                        !.format = ConvertBackBufferFormat(imgs[renderTarget].internalFormat),
                        !.mSamples = ClearLowBit(imgs[renderTarget].depth)],
                   ImageAddRef(imgs, renderTarget), 0, 0)
        ELSE Built(base, imgs, 0, 0)

\* Colorbuffer(width, height, format, samples) that records the request
\* before it returns from a failed allocation
ColorbufferAllocRecordsRequest(imgs, width, height, format, samples, avail) ==
    LET base == RenderbufferStorage("Colorbuffer", NullImage)
        requestedFormat == ConvertRenderbufferFormat(format)
        supportedSamples == getSupportedMultisampleCount(samples)
        made == DeviceCreate(imgs, width, height, requestedFormat, supportedSamples, avail)
        set(image) == [base EXCEPT !.image = image,
                                   !.mWidth = width,
                                   !.mHeight = height,
                                   !.format = format,
                                   !.internalFormat = requestedFormat,
                                   !.mSamples = supportedSamples]
    IN  IF width > 0 /\ height > 0
        THEN IF made.image = NullImage
             THEN Built(set(NullImage), made.imgs, 1, 1)
             ELSE Built(set(made.image), made.imgs, 1, 0)
        ELSE Built(set(NullImage), imgs, 0, 0)

\* Colorbuffer(width, height, format, samples) that stores the requested
\* sample count instead of the supported one
ColorbufferAllocUnclamped(imgs, width, height, format, samples, avail) ==
    LET base == RenderbufferStorage("Colorbuffer", NullImage)
        requestedFormat == ConvertRenderbufferFormat(format)
        supportedSamples == getSupportedMultisampleCount(samples)
        made == DeviceCreate(imgs, width, height, requestedFormat, supportedSamples, avail)
        set(image) == [base EXCEPT !.image = image,
                                   !.mWidth = width,
                                   !.mHeight = height,
                                   !.format = format,
                                   !.internalFormat = requestedFormat,
                                   !.mSamples = samples]
    IN  IF width > 0 /\ height > 0
        THEN IF made.image = NullImage
             THEN Built(base, made.imgs, 1, 1)
             ELSE Built(set(made.image), made.imgs, 1, 0)
        ELSE Built(set(NullImage), imgs, 0, 0)

\* Colorbuffer(width, height, format, samples) that asks the device a
\* second time when the first request returned no surface
ColorbufferAllocRetries(imgs, width, height, format, samples, avail) ==
    LET base == RenderbufferStorage("Colorbuffer", NullImage)
        requestedFormat == ConvertRenderbufferFormat(format)
        supportedSamples == getSupportedMultisampleCount(samples)
        made == DeviceCreate(imgs, width, height, requestedFormat, supportedSamples, avail)
        again == DeviceCreate(made.imgs, width, height, requestedFormat, supportedSamples, avail)
        set(image) == [base EXCEPT !.image = image,
                                   !.mWidth = width,
                                   !.mHeight = height,
                                   !.format = format,
                                   !.internalFormat = requestedFormat,
                                   !.mSamples = supportedSamples]
    IN  IF width > 0 /\ height > 0
        THEN IF made.image = NullImage
             THEN IF again.image = NullImage
                  THEN Built(base, again.imgs, 2, 1)
                  ELSE Built(set(again.image), again.imgs, 2, 0)
             ELSE Built(set(made.image), made.imgs, 1, 0)
        ELSE Built(set(NullImage), imgs, 0, 0)

\* Colorbuffer::Colorbuffer(int width, int height, GLenum format, GLsizei samples)
ColorbufferAlloc(imgs, width, height, format, samples, avail) ==
    LET base == RenderbufferStorage("Colorbuffer", NullImage)
        requestedFormat == ConvertRenderbufferFormat(format)
        supportedSamples == getSupportedMultisampleCount(samples)
        made == DeviceCreate(imgs, width, height, requestedFormat, supportedSamples, avail)
        set(image) == [base EXCEPT !.image = image,
                                   !.mWidth = width,
                                   !.mHeight = height,
                                   !.format = format,
                                   !.internalFormat = requestedFormat,
                                   !.mSamples = supportedSamples]
    IN  IF width > 0 /\ height > 0
        THEN IF made.image = NullImage
             THEN Built(base, made.imgs, 1, 1)
             ELSE Built(set(made.image), made.imgs, 1, 0)
        ELSE Built(set(NullImage), imgs, 0, 0)

\* DepthStencilbuffer::DepthStencilbuffer(egl::Image *depthStencil)
DepthStencilbufferWrap(imgs, kind, depthStencil) ==
    LET base == RenderbufferStorage(kind, depthStencil)
    IN  IF depthStencil # NullImage
        THEN Built([base EXCEPT
                        !.mWidth = imgs[depthStencil].width,
                        !.mHeight = imgs[depthStencil].height,
                        !.internalFormat = imgs[depthStencil].internalFormat,
                        !.format = ConvertDepthStencilFormat(imgs[depthStencil].internalFormat),
                        !.mSamples = ClearLowBit(imgs[depthStencil].depth)],
                   ImageAddRef(imgs, depthStencil), 0, 0)
        ELSE Built(base, imgs, 0, 0)

\* DepthStencilbuffer(width, height, samples) that asks the device as soon
\* as one of the two dimensions is positive
DepthStencilbufferAllocEitherDim(imgs, kind, width, height, samples, avail) ==
    LET base == RenderbufferStorage(kind, NullImage)
        supportedSamples == getSupportedMultisampleCount(samples)
        made == DeviceCreate(imgs, width, height, "FORMAT_D24S8", supportedSamples, avail)
        set(image) == [base EXCEPT !.image = image,
                                   !.mWidth = width,
                                   !.mHeight = height,
                                   !.format = "GL_DEPTH24_STENCIL8_OES",
                                   !.internalFormat = "FORMAT_D24S8",
                                   !.mSamples = supportedSamples]
    IN  IF width > 0 \/ height > 0
        THEN IF made.image = NullImage
             THEN Built(base, made.imgs, 1, 1)
             ELSE Built(set(made.image), made.imgs, 1, 0)
        ELSE Built(set(NullImage), imgs, 0, 0)

\* a dimension with the negative values raised to zero
ClampDim(d) == IF d < 0 THEN 0 ELSE d

\* DepthStencilbuffer(width, height, samples) that records a negative
\* width or height as zero
DepthStencilbufferAllocClampsDims(imgs, kind, width, height, samples, avail) ==
    LET base == RenderbufferStorage(kind, NullImage)
        supportedSamples == getSupportedMultisampleCount(samples)
        made == DeviceCreate(imgs, width, height, "FORMAT_D24S8", supportedSamples, avail)
        set(image) == [base EXCEPT !.image = image,
                                   !.mWidth = ClampDim(width),
                                   !.mHeight = ClampDim(height),
                                   !.format = "GL_DEPTH24_STENCIL8_OES",
                                   !.internalFormat = "FORMAT_D24S8",
                                   !.mSamples = supportedSamples]
    IN  IF width > 0 /\ height > 0
        THEN IF made.image = NullImage
             THEN Built(base, made.imgs, 1, 1)
             ELSE Built(set(made.image), made.imgs, 1, 0)
        ELSE Built(set(NullImage), imgs, 0, 0)

\* DepthStencilbuffer::DepthStencilbuffer(int width, int height, GLsizei samples)
DepthStencilbufferAlloc(imgs, kind, width, height, samples, avail) ==
    LET base == RenderbufferStorage(kind, NullImage)
        supportedSamples == getSupportedMultisampleCount(samples)
        made == DeviceCreate(imgs, width, height, "FORMAT_D24S8", supportedSamples, avail)
        set(image) == [base EXCEPT !.image = image,
                                   !.mWidth = width,
                                   !.mHeight = height,
                                   !.format = "GL_DEPTH24_STENCIL8_OES",
                                   !.internalFormat = "FORMAT_D24S8",
                                   !.mSamples = supportedSamples]
    IN  IF width > 0 /\ height > 0
        THEN IF made.image = NullImage
             THEN Built(base, made.imgs, 1, 1)
             ELSE Built(set(made.image), made.imgs, 1, 0)
        ELSE Built(set(NullImage), imgs, 0, 0)

\* Depthbuffer constructor body that overrides the format without looking
\* at the backing
DepthbufferOverrideAlways(b) ==
    [b EXCEPT !.st.format = "GL_DEPTH_COMPONENT16_OES"]

\* The body of the Depthbuffer constructors, after the DepthStencilbuffer
\* constructor has run
DepthbufferOverride(b) ==
    IF b.st.image # NullImage
    THEN [b EXCEPT !.st.format = "GL_DEPTH_COMPONENT16_OES"]
    ELSE b

\* Stencilbuffer constructor body that leaves the format of the base class
StencilbufferOverrideNever(b) == b

\* The body of the Stencilbuffer constructors, after the DepthStencilbuffer
\* constructor has run
StencilbufferOverride(b) ==
    IF b.st.image # NullImage
    THEN [b EXCEPT !.st.format = "GL_STENCIL_INDEX8_OES"]
    ELSE b

\* The derived-class constructor body of each storage kind
Specialize(kind, b) ==
    CASE kind = "Depthbuffer" -> DepthbufferOverride(b)
      [] kind = "Stencilbuffer" -> StencilbufferOverride(b)
      [] OTHER -> b

\* new <kind>(image)
ConstructWrap(imgs, kind, image) ==
    IF kind = "Colorbuffer"
    THEN ColorbufferWrap(imgs, image)
    ELSE Specialize(kind, DepthStencilbufferWrap(imgs, kind, image))

\* new <kind>(width, height, [format,] samples)
ConstructAlloc(imgs, kind, width, height, format, samples, avail) ==
    IF kind = "Colorbuffer"
    THEN ColorbufferAlloc(imgs, width, height, format, samples, avail)
    ELSE Specialize(kind, DepthStencilbufferAlloc(imgs, kind, width, height, samples, avail))

\* ---------------------------------------------------------------- state
VARIABLES
    images,       \* ImageIds -> the egl::Image in that slot (refs = 0: none)
    held,         \* ImageIds -> references callers and outside owners hold
    storages,     \* StorageIds -> the RenderbufferStorage object in that slot
    texImage,     \* the Texture2D's level-0 Image of target GL_TEXTURE_2D
    proxyRefs,    \* addProxyRef calls less releaseProxy calls the Texture2D
                  \* has received
    proxyLife,    \* the RenderbufferTexture2D object: "none", "live", "dead"
    rb,           \* the Renderbuffer handle: life, reference count, mInstance
    pc,           \* "run"; "aborted" after a failed ASSERT; "undefined" after
                  \* undefined behaviour
    last          \* the operation that led to this state, its inputs and results

vars == <<images, held, storages, texImage, proxyRefs, proxyLife, rb, pc, last>>

\* values of Renderbuffer::mInstance
NullInst == [t |-> "null", s |-> 0]
ProxyInst == [t |-> "proxy", s |-> 0]
StorageInst(s) == [t |-> "storage", s |-> s]

NoLast ==
    [op |-> "none", kind |-> "none", sid |-> 0, width |-> 0, height |-> 0,
     format |-> "none", samples |-> 0, image |-> NullImage,
     devCalls |-> 0, errs |-> 0, ret |-> NullImage, shared |-> FALSE,
     old |-> NullInst,
     seen |-> [life |-> "none", refs |-> 0, inst |-> NullInst]]

IsDepthFormat(f) == f \in {"FORMAT_D24S8", "FORMAT_D16", "FORMAT_D24X8", "FORMAT_D32"}

\* mInstance points to a live object
InstLive(inst) ==
    CASE inst.t = "proxy" -> proxyLife = "live"
      [] inst.t = "storage" -> storages[inst.s].life = "live"
      [] OTHER -> FALSE

\* the slot a newly constructed storage object is placed in
FreeStorageIds ==
    {s \in StorageIds : storages[s].life = "free" /\ rb.inst # StorageInst(s)}

\* the name the handle is constructed with
RenderbufferName == 1

\* no Renderbuffer handle
NoRenderbuffer == [life |-> "none", refs |-> 0, inst |-> NullInst, name |-> 0]

\* what a constructor call that ASSERT stopped leaves: the process has
\* aborted and there is no handle
AbortedRenderbuffer == [NoRenderbuffer EXCEPT !.life = "aborted"]

\* Renderbuffer::Renderbuffer(name, instance): a handle nobody references
\* yet. ASSERT(instance) stops a build with assertions on when instance is
\* null, and is nothing in a build without them, which stores the null
\* pointer.
Renderbuffer(instance, assertsOn) ==
    IF instance = NullInst /\ assertsOn
    THEN AbortedRenderbuffer
    ELSE [life |-> "alive", refs |-> 0, inst |-> instance, name |-> RenderbufferName]

\* Before anything is constructed.
CtorInit ==
    /\ images = [i \in ImageIds |-> NoImage]
    /\ held = [i \in ImageIds |-> 0]
    /\ storages = [s \in StorageIds |-> NoStorage]
    /\ texImage = NullImage
    /\ proxyRefs = 0
    /\ proxyLife = "none"
    /\ rb = NoRenderbuffer
    /\ pc = "run"
    /\ last = NoLast

\* new Renderbuffer(name, new RenderbufferTexture2D(texture))
InitProxy ==
    /\ images = [i \in ImageIds |-> NoImage]
    /\ storages = [s \in StorageIds |-> NoStorage]
    /\ proxyLife = "live"
    /\ \E assertsOn \in BOOLEAN : rb = Renderbuffer(ProxyInst, assertsOn)

\* new Renderbuffer(name, new Colorbuffer(width, height, format, samples))
InitStorage ==
    \E kind \in FirstKinds, avail \in BOOLEAN :
        LET b == ConstructAlloc([i \in ImageIds |-> NoImage], kind, 1, 1,
                                IF kind = "Colorbuffer" THEN "GL_RGB565_OES" ELSE "none",
                                8, avail)
        IN  /\ images = b.imgs
            /\ storages = [s \in StorageIds |-> IF s = 1 THEN b.st ELSE NoStorage]
            /\ proxyLife = "none"
            /\ \E assertsOn \in BOOLEAN : rb = Renderbuffer(StorageInst(1), assertsOn)

\* new Renderbuffer(name, nullptr)
InitNull ==
    /\ images = [i \in ImageIds |-> NoImage]
    /\ storages = [s \in StorageIds |-> NoStorage]
    /\ proxyLife = "none"
    /\ \E assertsOn \in BOOLEAN : rb = Renderbuffer(NullInst, assertsOn)

\* The state after the construction of the Renderbuffer handle.
Init ==
    /\ held = [i \in ImageIds |-> 0]
    /\ texImage = NullImage
    /\ proxyRefs = 0
    /\ last = NoLast
    /\ InitProxy \/ InitStorage \/ InitNull
    /\ pc = IF rb = AbortedRenderbuffer THEN "aborted" ELSE "run"

\* ----------------------------------------------------------- environment
\* An Image made outside this file (an EGL surface's buffer); its maker
\* holds the one reference it is created with.
CreateImage(width, height, depth, internalFormat) ==
    /\ pc = "run"
    /\ FreeImageIds(images) # {}
    /\ LET i == CHOOSE k \in FreeImageIds(images) : \A j \in FreeImageIds(images) : k <= j
       IN  /\ images' = NewImage(images, i, width, height, depth, internalFormat)
           /\ held' = [held EXCEPT ![i] = 1]
           /\ last' = [NoLast EXCEPT !.op = "createImage", !.ret = i]
    /\ UNCHANGED <<storages, texImage, proxyRefs, proxyLife, rb, pc>>

\* A holder gives back one of the references it holds: egl::Image::release.
ReleaseImage(i) ==
    /\ pc = "run"
    /\ held[i] > 0
    /\ images' = ImageRelease(images, i)
    /\ held' = [held EXCEPT ![i] = @ - 1]
    /\ last' = [NoLast EXCEPT !.op = "releaseImage", !.image = i]
    /\ UNCHANGED <<storages, texImage, proxyRefs, proxyLife, rb, pc>>

\* The texture's level 0 is specified again: the texture gives up the Image
\* it had and owns a new one.
TexImage(width, height, internalFormat) ==
    /\ pc = "run"
    /\ LET dropped == IF texImage = NullImage THEN images ELSE ImageRelease(images, texImage)
       IN  /\ FreeImageIds(dropped) # {}
           /\ LET i == CHOOSE k \in FreeImageIds(dropped) : \A j \in FreeImageIds(dropped) : k <= j
              IN  /\ images' = NewImage(dropped, i, width, height, 1, internalFormat)
                  /\ texImage' = i
                  /\ last' = [NoLast EXCEPT !.op = "texImage", !.ret = i]
    /\ UNCHANGED <<held, storages, proxyRefs, proxyLife, rb, pc>>

\* ---------------------------------------------------------- construction
\* new Colorbuffer(image), new DepthStencilbuffer(image), new Depthbuffer(image),
\* new Stencilbuffer(image)
NewStorageWrap(kind, image) ==
    /\ pc = "run"
    /\ FreeStorageIds # {}
    /\ image # NullImage => /\ held[image] > 0
                            /\ IsDepthFormat(images[image].internalFormat) <=> kind \in DepthKinds
    /\ LET s == CHOOSE k \in FreeStorageIds : \A j \in FreeStorageIds : k <= j
           b == ConstructWrap(images, kind, image)
       IN  /\ storages' = [storages EXCEPT ![s] = b.st]
           /\ images' = b.imgs
           /\ last' = [NoLast EXCEPT !.op = "wrap", !.kind = kind, !.sid = s,
                                     !.image = image, !.devCalls = b.devCalls,
                                     !.errs = b.errs]
    /\ UNCHANGED <<held, texImage, proxyRefs, proxyLife, rb, pc>>

\* new Colorbuffer(width, height, format, samples),
\* new DepthStencilbuffer(width, height, samples), new Depthbuffer(...),
\* new Stencilbuffer(...)
NewStorageAlloc(kind, width, height, format, samples, avail) ==
    /\ pc = "run"
    /\ FreeStorageIds # {}
    /\ LET s == CHOOSE k \in FreeStorageIds : \A j \in FreeStorageIds : k <= j
           b == ConstructAlloc(images, kind, width, height, format, samples, avail)
       IN  /\ storages' = [storages EXCEPT ![s] = b.st]
           /\ images' = b.imgs
           /\ last' = [NoLast EXCEPT !.op = "alloc", !.kind = kind, !.sid = s,
                                     !.width = width, !.height = height,
                                     !.format = format, !.samples = samples,
                                     !.image = b.st.image, !.devCalls = b.devCalls,
                                     !.errs = b.errs]
    /\ UNCHANGED <<held, texImage, proxyRefs, proxyLife, rb, pc>>

\* ------------------------------------------------------------ destruction
\* a storage destructor that forgets to release its Image
StorageDestructorKeepsImage(imgs, st) == imgs

\* Colorbuffer::~Colorbuffer / DepthStencilbuffer::~DepthStencilbuffer
StorageDestructor(imgs, st) ==
    IF st.image # NullImage THEN ImageRelease(imgs, st.image) ELSE imgs

\* delete mInstance: what is left of the storage objects, the Images and the
\* proxy object. Deleting the null pointer does nothing.
DeleteInstance(inst, sts, imgs, plife) ==
    CASE inst.t = "storage" ->
            [sts |-> [sts EXCEPT ![inst.s] = NoStorage],
             imgs |-> StorageDestructor(imgs, sts[inst.s]),
             plife |-> plife]
      [] inst.t = "proxy" ->
            [sts |-> sts, imgs |-> imgs, plife |-> "dead"]
      [] OTHER ->
            [sts |-> sts, imgs |-> imgs, plife |-> plife]

\* delete of a storage object that was never handed to the handle
DeleteStorage(s) ==
    /\ pc = "run"
    /\ storages[s].life = "live"
    /\ rb.inst # StorageInst(s)
    /\ LET d == DeleteInstance(StorageInst(s), storages, images, proxyLife)
       IN  /\ storages' = d.sts
           /\ images' = d.imgs
    /\ last' = [NoLast EXCEPT !.op = "deleteStorage", !.sid = s,
                              !.kind = storages[s].kind, !.image = storages[s].image]
    /\ UNCHANGED <<held, texImage, proxyRefs, proxyLife, rb, pc>>

\* ------------------------------------------------------------ Renderbuffer
\* The process is over (how = "aborted": a failed ASSERT called abort) or
\* nothing can be said of it any more (how = "undefined"): no object is left
\* to observe, only the call that ended it.
Halt(how, op) ==
    /\ pc' = how
    /\ last' = [NoLast EXCEPT !.op = op, !.old = rb.inst]
    /\ images' = [i \in ImageIds |-> NoImage]
    /\ held' = [i \in ImageIds |-> 0]
    /\ storages' = [s \in StorageIds |-> NoStorage]
    /\ texImage' = NullImage
    /\ proxyRefs' = 0
    /\ proxyLife' = "none"
    /\ rb' = NoRenderbuffer

\* A call through mInstance when it is null or dangling, or through a null
\* Image pointer: undefined behaviour.
Undefined(op) == Halt("undefined", op)

\* a base-class addProxyRef that notifies the texture as the proxy's does
InterfaceAddProxyRefForwards(n) == n + 1

\* RenderbufferInterface::addProxyRef: the proxy references the texture
\* counts, after the call
InterfaceAddProxyRef(n) == n

\* RenderbufferInterface::releaseProxy
InterfaceReleaseProxy(n) == n

\* RenderbufferTexture2D::addProxyRef
Texture2DAddProxyRef(n) == n + 1

\* RenderbufferTexture2D::releaseProxy
Texture2DReleaseProxy(n) == n - 1

\* mInstance->addProxyRef(this), by the dynamic type of mInstance
AddProxyRef(inst, n) ==
    IF inst.t = "proxy" THEN Texture2DAddProxyRef(n) ELSE InterfaceAddProxyRef(n)

\* mInstance->releaseProxy(this), by the dynamic type of mInstance
ReleaseProxy(inst, n) ==
    IF inst.t = "proxy" THEN Texture2DReleaseProxy(n) ELSE InterfaceReleaseProxy(n)

\* The handle as a proxy hook finds it: its existence, its reference count
\* and its mInstance at the time of the call.
Seen(h) == [life |-> h.life, refs |-> h.refs, inst |-> h.inst]

\* Renderbuffer::addRef: mInstance->addProxyRef(this) is the first statement,
\* it finds the handle as it was before Object::addRef()
AddRefHookSees(h) == Seen(h)

\* a release that counts first: releaseProxy finds the handle as
\* Object::release() left it, destroyed if that was the last reference
ReleaseHookSeesCounted(h) ==
    IF h.refs = 1
    THEN Seen([NoRenderbuffer EXCEPT !.life = "destroyed"])
    ELSE Seen([h EXCEPT !.refs = @ - 1])

\* Renderbuffer::release: mInstance->releaseProxy(this) is the first
\* statement, it finds the handle as it was before Object::release()
ReleaseHookSees(h) == Seen(h)

\* Renderbuffer::addRef
AddRef ==
    /\ pc = "run"
    /\ rb.life = "alive"
    /\ rb.refs < MaxRefs
    /\ IF InstLive(rb.inst)
       THEN /\ proxyRefs' = AddProxyRef(rb.inst, proxyRefs)
            /\ rb' = [rb EXCEPT !.refs = @ + 1]
            /\ last' = [NoLast EXCEPT !.op = "addRef", !.old = rb.inst,
                                      !.seen = AddRefHookSees(rb)]
            /\ UNCHANGED <<images, held, storages, texImage, proxyLife, pc>>
       ELSE Undefined("addRef")

\* Renderbuffer::~Renderbuffer, reached from Object::release when the last
\* reference goes
RenderbufferDestructor(inst, sts, imgs, plife) ==
    DeleteInstance(inst, sts, imgs, plife)

\* Renderbuffer::release
Release ==
    /\ pc = "run"
    /\ rb.life = "alive"
    /\ rb.refs > 0
    /\ IF InstLive(rb.inst)
       THEN /\ proxyRefs' = ReleaseProxy(rb.inst, proxyRefs)
            /\ IF rb.refs = 1
               THEN LET d == RenderbufferDestructor(rb.inst, storages, images, proxyLife)
                    IN  /\ rb' = [NoRenderbuffer EXCEPT !.life = "destroyed"]
                        /\ storages' = d.sts
                        /\ images' = d.imgs
                        /\ proxyLife' = d.plife
               ELSE /\ rb' = [rb EXCEPT !.refs = @ - 1]
                    /\ UNCHANGED <<storages, images, proxyLife>>
            /\ last' = [NoLast EXCEPT !.op = "release", !.old = rb.inst,
                                      !.seen = ReleaseHookSees(rb),
                                      !.image = IF rb.inst.t = "storage"
                                                THEN storages[rb.inst.s].image
                                                ELSE NullImage]
            /\ UNCHANGED <<held, texImage, pc>>
       ELSE Undefined("release")

\* an assignment that is left out: the handle keeps the pointer to the
\* interface that was just deleted
SetInstanceKeepsOld(h, new) == h

\* an assignment that starts the handle over: the new storage in a handle
\* nobody references
SetInstanceFreshHandle(h, new) ==
    Renderbuffer(IF new = 0 THEN NullInst ELSE StorageInst(new), FALSE)

\* mInstance = newStorage, the last statement of Renderbuffer::setStorage
SetInstance(h, new) ==
    [h EXCEPT !.inst = IF new = 0 THEN NullInst ELSE StorageInst(new)]

\* Renderbuffer::setStorage(newStorage); new = 0 is the null pointer.
\* ASSERT(newStorage) stops a build with assertions on and is nothing in a
\* build without them.
SetStorage(new, assertsOn) ==
    /\ pc = "run"
    /\ rb.life = "alive"
    /\ new # 0 => storages[new].life = "live"
    /\ IF new = 0 /\ assertsOn
       THEN Halt("aborted", "setStorage")
       ELSE IF rb.inst.t # "null" /\ ~InstLive(rb.inst)
       THEN Undefined("setStorage")
       ELSE LET d == DeleteInstance(rb.inst, storages, images, proxyLife)
            IN  /\ storages' = d.sts
                /\ images' = d.imgs
                /\ proxyLife' = d.plife
                /\ rb' = SetInstance(rb, new)
                /\ last' = [NoLast EXCEPT !.op = "setStorage", !.sid = new, !.old = rb.inst,
                                          !.image = IF rb.inst.t = "storage"
                                                    THEN storages[rb.inst.s].image
                                                    ELSE NullImage]
                /\ UNCHANGED <<held, texImage, proxyRefs, pc>>

\* ----------------------------------------------------------------- queries
\* What an Image accessor leaves: the pointer it returns and the Images.
Got(ret, imgs) == [ret |-> ret, imgs |-> imgs]

\* a getRenderTarget that returns the Image without a reference for the caller
StorageGetRenderTargetNoAddRef(imgs, st) == Got(st.image, imgs)

\* Colorbuffer::getRenderTarget / DepthStencilbuffer::getRenderTarget
StorageGetRenderTarget(imgs, st) ==
    IF st.image # NullImage
    THEN Got(st.image, ImageAddRef(imgs, st.image))
    ELSE Got(st.image, imgs)

\* a createSharedImage that adds the reference and does not mark the Image
StorageCreateSharedImageNoMark(imgs, st) ==
    IF st.image # NullImage
    THEN Got(st.image, ImageAddRef(imgs, st.image))
    ELSE Got(st.image, imgs)

\* Colorbuffer::createSharedImage / DepthStencilbuffer::createSharedImage
StorageCreateSharedImage(imgs, st) ==
    IF st.image # NullImage
    THEN Got(st.image, ImageMarkShared(ImageAddRef(imgs, st.image), st.image))
    ELSE Got(st.image, imgs)

\* Texture2D::getRenderTarget(GL_TEXTURE_2D, 0)
Texture2DGetRenderTarget(imgs, image) ==
    IF image # NullImage
    THEN Got(image, ImageAddRef(imgs, image))
    ELSE Got(image, imgs)

\* Texture2D::createSharedImage(GL_TEXTURE_2D, 0)
Texture2DCreateSharedImage(imgs, image) ==
    IF image # NullImage
    THEN Got(image, ImageMarkShared(ImageAddRef(imgs, image), image))
    ELSE Got(image, imgs)

\* mInstance->getRenderTarget(), by the dynamic type of mInstance
InstanceGetRenderTarget(inst) ==
    IF inst.t = "proxy"
    THEN Texture2DGetRenderTarget(images, texImage)
    ELSE StorageGetRenderTarget(images, storages[inst.s])

\* mInstance->createSharedImage(), by the dynamic type of mInstance
InstanceCreateSharedImage(inst) ==
    IF inst.t = "proxy"
    THEN Texture2DCreateSharedImage(images, texImage)
    ELSE StorageCreateSharedImage(images, storages[inst.s])

\* the Image references callers hold, over all Images
RECURSIVE SumHeld(_)
SumHeld(ids) ==
    IF ids = {} THEN 0
    ELSE LET i == CHOOSE k \in ids : TRUE IN held[i] + SumHeld(ids \ {i})

HeldTotal == SumHeld(ImageIds)

\* The caller of an accessor now holds the reference it was returned.
Acquire(op, g) ==
    /\ g.ret # NullImage => HeldTotal < MaxHeld
    /\ images' = g.imgs
    /\ held' = IF g.ret # NullImage THEN [held EXCEPT ![g.ret] = @ + 1] ELSE held
    /\ last' = [NoLast EXCEPT !.op = op, !.ret = g.ret, !.old = rb.inst]
    /\ UNCHANGED <<storages, texImage, proxyRefs, proxyLife, rb, pc>>

\* Renderbuffer::getRenderTarget
GetRenderTarget ==
    /\ pc = "run"
    /\ rb.life = "alive"
    /\ IF InstLive(rb.inst)
       THEN Acquire("getRenderTarget", InstanceGetRenderTarget(rb.inst))
       ELSE Undefined("getRenderTarget")

\* Renderbuffer::createSharedImage
CreateSharedImage ==
    /\ pc = "run"
    /\ rb.life = "alive"
    /\ IF InstLive(rb.inst)
       THEN Acquire("createSharedImage", InstanceCreateSharedImage(rb.inst))
       ELSE Undefined("createSharedImage")

\* What a query comes to: a value, or (ub) a call through a null pointer or
\* through a pointer to a destroyed object. Such a call has no defined
\* result: it may stop the program or return what some other object now at
\* that address holds, so the model gives it no value.
Answer(value) == [ub |-> FALSE, value |-> value]
NoAnswer == [ub |-> TRUE, value |-> FALSE]

\* Texture2D::isShared(GL_TEXTURE_2D, 0): a level without an Image is not
\* shared
Texture2DIsShared(imgs, image) ==
    IF image # NullImage THEN Answer(imgs[image].shared) ELSE Answer(FALSE)

\* an isShared that takes a storage without an Image as not shared
StorageIsSharedNullIsFalse(imgs, st) ==
    IF st.image # NullImage THEN Answer(imgs[st.image].shared) ELSE Answer(FALSE)

\* Colorbuffer::isShared / DepthStencilbuffer::isShared: the Image pointer is
\* dereferenced without a null test
StorageIsShared(imgs, st) ==
    IF st.image # NullImage THEN Answer(imgs[st.image].shared) ELSE NoAnswer

\* Renderbuffer::isShared: mInstance->isShared(), by the dynamic type of
\* mInstance; undefined when mInstance is null or destroyed
IsShared(inst) ==
    IF ~InstLive(inst) THEN NoAnswer
    ELSE IF inst.t = "proxy"
    THEN Texture2DIsShared(images, texImage)
    ELSE StorageIsShared(images, storages[inst.s])

\* Texture2D::getWidth(GL_TEXTURE_2D, 0): 0 for a level without an Image
Texture2DGetWidth(imgs, image) ==
    IF image # NullImage THEN imgs[image].width ELSE 0

\* Texture2D::getHeight(GL_TEXTURE_2D, 0)
Texture2DGetHeight(imgs, image) ==
    IF image # NullImage THEN imgs[image].height ELSE 0

\* Texture2D::getInternalFormat(GL_TEXTURE_2D, 0)
Texture2DGetInternalFormat(imgs, image) ==
    IF image # NullImage THEN imgs[image].internalFormat ELSE "FORMAT_NULL"

\* Texture2D::getFormat(GL_TEXTURE_2D, 0): the API format the level was
\* specified with
Texture2DGetFormat(imgs, image) ==
    CASE image = NullImage -> "GL_NONE"
      [] imgs[image].internalFormat = "FORMAT_R5G6B5" -> "GL_RGB"
      [] OTHER -> "GL_RGBA"

\* Renderbuffer::getWidth: mInstance->getWidth(), which is
\* RenderbufferStorage::getWidth or RenderbufferTexture2D::getWidth by the
\* dynamic type of mInstance; undefined when mInstance is null or destroyed
GetWidth(inst) ==
    IF ~InstLive(inst) THEN NoAnswer
    ELSE IF inst.t = "proxy"
    THEN Answer(Texture2DGetWidth(images, texImage))
    ELSE Answer(storages[inst.s].mWidth)

\* Renderbuffer::getHeight: mInstance->getHeight()
GetHeight(inst) ==
    IF ~InstLive(inst) THEN NoAnswer
    ELSE IF inst.t = "proxy"
    THEN Answer(Texture2DGetHeight(images, texImage))
    ELSE Answer(storages[inst.s].mHeight)

\* Renderbuffer::getInternalFormat: mInstance->getInternalFormat()
GetInternalFormat(inst) ==
    IF ~InstLive(inst) THEN NoAnswer
    ELSE IF inst.t = "proxy"
    THEN Answer(Texture2DGetInternalFormat(images, texImage))
    ELSE Answer(storages[inst.s].internalFormat)

\* a getSamples that answers for the proxy with the sample count of the
\* texture level's Image, as the wrap constructors read it
GetSamplesOfLevel(inst) ==
    IF ~InstLive(inst) THEN NoAnswer
    ELSE IF inst.t = "proxy"
    THEN Answer(IF texImage # NullImage THEN images[texImage].depth ELSE 0)
    ELSE Answer(storages[inst.s].mSamples)

\* Renderbuffer::getSamples: mInstance->getSamples(), 0 from the proxy
GetSamples(inst) ==
    IF ~InstLive(inst) THEN NoAnswer
    ELSE IF inst.t = "proxy" THEN Answer(0)
    ELSE Answer(storages[inst.s].mSamples)

\* Renderbuffer::getFormat: mInstance->getFormat()
InstanceGetFormat(inst) ==
    IF ~InstLive(inst) THEN NoAnswer
    ELSE IF inst.t = "proxy"
    THEN Answer(Texture2DGetFormat(images, texImage))
    ELSE Answer(storages[inst.s].format)

\* RenderbufferStorage::getFormat of a storage object
GetFormat(s) == storages[s].format

\* ------------------------------------------------------------ specification
\* The whole object model: the handle, its interfaces, the texture and the
\* Images, with storage objects built from a few representative requests.
Next ==
    \/ \E i \in ImageIds : ReleaseImage(i)
    \/ TexImage(1, 1, "FORMAT_A8B8G8R8")
    \/ \E k \in HandleKinds, i \in ImageIds \cup {NullImage} : NewStorageWrap(k, i)
    \/ \E k \in HandleKinds, avail \in BOOLEAN :
            NewStorageAlloc(k, 1, 1, IF k = "Colorbuffer" THEN "GL_RGB565_OES" ELSE "none",
                            8, avail)
    \/ \E s \in StorageIds : DeleteStorage(s)
    \/ AddRef
    \/ Release
    \/ \E new \in StorageIds \cup {0}, assertsOn \in BOOLEAN : SetStorage(new, assertsOn)
    \/ GetRenderTarget
    \/ CreateSharedImage

Spec == Init /\ [][Next]_vars

\* the format argument of an allocating constructor: only Colorbuffer's has one
FormatArgs(kind) == IF kind = "Colorbuffer" THEN ColorFormats ELSE {"none"}

\* The constructors and destructors of the storage classes alone, one
\* storage object and one outside Image at a time, over every request of the
\* input sets.
NoStorageLive == \A s \in StorageIds : storages[s].life = "free"

CtorNext ==
    \/ \E w \in PosDims, h \in PosDims, d \in ExternalDepths,
          f \in ExternalColorFormats \cup ExternalDepthFormats :
            FreeImageIds(images) = ImageIds /\ CreateImage(w, h, d, f)
    \/ \E i \in ImageIds : ReleaseImage(i)
    \/ \E k \in StorageKinds, i \in ImageIds \cup {NullImage} :
            NoStorageLive /\ NewStorageWrap(k, i)
    \/ \E k \in StorageKinds, w \in Dims, h \in Dims,
          n \in SampleRequests, avail \in BOOLEAN :
            \E f \in FormatArgs(k) :
                NoStorageLive /\ NewStorageAlloc(k, w, h, f, n, avail)
    \/ \E s \in StorageIds : DeleteStorage(s)

CtorSpec == CtorInit /\ [][CtorNext]_vars

\* =================================================================== claims
\* The storage object the last constructor call built.
Made == storages[last.sid]

\* The last call was an allocate-mode constructor that asked the device for
\* a surface and got none.
AllocFailed ==
    /\ last.op = "alloc"
    /\ last.width > 0 /\ last.height > 0
    /\ last.devCalls = 1 /\ last.image = NullImage

\* The last call was an allocate-mode constructor that got a surface.
AllocSucceeded ==
    /\ last.op = "alloc"
    /\ last.width > 0 /\ last.height > 0
    /\ last.devCalls = 1 /\ last.image # NullImage

\* the API format an allocate-mode constructor of this class records
ConstructedFormat(kind, format) ==
    IF kind = "Colorbuffer" THEN format ELSE "GL_DEPTH24_STENCIL8_OES"

\* C1 as stated: after an allocate-mode construction of a Colorbuffer or a
\* DepthStencilbuffer with positive width and height whose device allocation
\* failed, GL_OUT_OF_MEMORY has been raised, the Image pointer is null and
\* the storage reports the requested width, height, format and clamped
\* sample count.
C1_FailedAllocRecordsRequest ==
    (AllocFailed /\ last.kind \in {"Colorbuffer", "DepthStencilbuffer"}) =>
        /\ last.errs = 1
        /\ Made.image = NullImage
        /\ StorageGetRenderTarget(images, Made).ret = NullImage
        /\ Made.mWidth = last.width
        /\ Made.mHeight = last.height
        /\ Made.format = ConstructedFormat(last.kind, last.format)
        /\ Made.mSamples = getSupportedMultisampleCount(last.samples)

\* C1 as amended: after such a failed allocation GL_OUT_OF_MEMORY has been
\* raised once, the Image pointer is null (getRenderTarget returns null), and
\* the storage reports what RenderbufferStorage's constructor set, not the
\* request: width 0, height 0, format GL_RGBA4_OES, internal format
\* FORMAT_A8B8G8R8 and 0 samples.
C1_FailedAllocKeepsDefaults ==
    (AllocFailed /\ last.kind \in {"Colorbuffer", "DepthStencilbuffer"}) =>
        /\ last.errs = 1
        /\ Made.image = NullImage
        /\ StorageGetRenderTarget(images, Made).ret = NullImage
        /\ Made.mWidth = 0
        /\ Made.mHeight = 0
        /\ Made.format = "GL_RGBA4_OES"
        /\ Made.internalFormat = "FORMAT_A8B8G8R8"
        /\ Made.mSamples = 0

\* A Colorbuffer allocation for a format and a sample count that differ from
\* the defaults has failed.
C1_Witness ==
    /\ AllocFailed
    /\ last.kind = "Colorbuffer"
    /\ last.format = "GL_RGB565_OES"
    /\ last.samples = 8
    /\ Made.life = "live"

\* C6: after an allocate-mode construction with positive width and height
\* for which the device returned a surface, the storage reports the requested
\* width and height and the supported sample count (the count the device was
\* given: 8 becomes 4 where {0, 2, 4} are supported), and getRenderTarget
\* returns that Image, not null, with one reference more.
C6_AllocReportsRequest ==
    AllocSucceeded =>
        LET g == StorageGetRenderTarget(images, Made)
        IN  /\ Made.mWidth = last.width
            /\ Made.mHeight = last.height
            /\ Made.mSamples \in SupportedSamples
            /\ Made.mSamples <= last.samples
            /\ \A n \in SupportedSamples : n <= last.samples => n <= Made.mSamples
            /\ last.samples = 8 => Made.mSamples = 4
            /\ images[Made.image].depth = Made.mSamples
            /\ g.ret = Made.image
            /\ g.ret # NullImage
            /\ g.imgs[g.ret].refs = images[g.ret].refs + 1

\* A Colorbuffer asked for 8 samples has been allocated.
C6_Witness ==
    /\ AllocSucceeded
    /\ last.kind = "Colorbuffer"
    /\ last.samples = 8
    /\ images[Made.image].refs = 1

\* C7: after an allocate-mode construction with width 0 or height 0, the
\* device was not asked, no error was raised, the Image pointer is null
\* (getRenderTarget and createSharedImage return null) and the storage
\* reports exactly the requested width and height.
C7_ZeroDimNoAllocation ==
    (last.op = "alloc" /\ (last.width = 0 \/ last.height = 0)) =>
        /\ last.devCalls = 0
        /\ last.errs = 0
        /\ Made.image = NullImage
        /\ StorageGetRenderTarget(images, Made).ret = NullImage
        /\ StorageCreateSharedImage(images, Made).ret = NullImage
        /\ StorageGetRenderTarget(images, Made).imgs = images
        /\ Made.mWidth = last.width
        /\ Made.mHeight = last.height

\* A depth-stencil storage has been constructed with width 0 and a positive
\* height.
C7_Witness ==
    /\ last.op = "alloc"
    /\ last.kind = "DepthStencilbuffer"
    /\ last.width = 0
    /\ last.height > 0
    /\ Made.life = "live"

\* C8: a wrap-mode construction over a non-null Image asks the device for
\* nothing, adds exactly one reference to that Image and changes no other
\* Image, and the storage reports the Image's width, height and internal
\* format, and as its sample count the Image's depth with the low bit
\* cleared.
C8_WrapCopiesImage ==
    [][(last'.op = "wrap" /\ last'.image # NullImage) =>
          LET i == last'.image
              st == storages'[last'.sid]
          IN  /\ last'.devCalls = 0
              /\ last'.errs = 0
              /\ images'[i].refs = images[i].refs + 1
              /\ \A j \in ImageIds \ {i} : images'[j] = images[j]
              /\ st.image = i
              /\ st.mWidth = images[i].width
              /\ st.mHeight = images[i].height
              /\ st.internalFormat = images[i].internalFormat
              /\ st.mSamples % 2 = 0
              /\ st.mSamples \in {images[i].depth, images[i].depth - 1}]_vars

\* A Colorbuffer wraps an Image whose depth field is odd.
C8_Witness ==
    /\ last.op = "wrap"
    /\ last.kind = "Colorbuffer"
    /\ last.image # NullImage
    /\ images[last.image].depth = 5
    /\ Made.mSamples = 4

\* A Depthbuffer or Stencilbuffer was just constructed and has no Image.
SingleAspectUnbacked ==
    /\ last.op \in {"alloc", "wrap"}
    /\ last.kind \in {"Depthbuffer", "Stencilbuffer"}
    /\ Made.image = NullImage

\* C9 as stated: a Depthbuffer or Stencilbuffer that obtained no Image (wrap
\* mode over null, allocate mode with a zero dimension, failed allocation)
\* reports the format GL_DEPTH24_STENCIL8_OES.
C9_UnbackedIsCombined ==
    SingleAspectUnbacked => Made.format = "GL_DEPTH24_STENCIL8_OES"

\* C9 as amended: such a Depthbuffer or Stencilbuffer never reports the
\* depth-only or stencil-only format; it reports GL_DEPTH24_STENCIL8_OES
\* when it was constructed in allocate mode with a width or height that is
\* not positive, and GL_RGBA4_OES, the format RenderbufferStorage's
\* constructor sets, when it wraps a null Image or its allocation failed.
C9_UnbackedFormat ==
    SingleAspectUnbacked =>
        /\ Made.format \notin {"GL_DEPTH_COMPONENT16_OES", "GL_STENCIL_INDEX8_OES"}
        /\ (last.op = "alloc" /\ (last.width <= 0 \/ last.height <= 0))
              => Made.format = "GL_DEPTH24_STENCIL8_OES"
        /\ (last.op = "wrap" \/ AllocFailed) => Made.format = "GL_RGBA4_OES"

\* A Depthbuffer has been constructed over a null Image.
C9_Witness ==
    /\ SingleAspectUnbacked
    /\ last.op = "wrap"
    /\ last.kind = "Depthbuffer"
    /\ Made.life = "live"

\* A Depthbuffer or Stencilbuffer was just constructed and has an Image.
SingleAspectBacked ==
    /\ last.op \in {"alloc", "wrap"}
    /\ last.kind \in {"Depthbuffer", "Stencilbuffer"}
    /\ Made.image # NullImage

\* the single-aspect API format of the class
SingleAspectFormat(kind) ==
    IF kind = "Depthbuffer" THEN "GL_DEPTH_COMPONENT16_OES" ELSE "GL_STENCIL_INDEX8_OES"

\* C10 as stated: a Depthbuffer with an Image reports
\* GL_DEPTH_COMPONENT16_OES and a Stencilbuffer GL_STENCIL_INDEX8_OES, and
\* both report the internal format FORMAT_D24S8.
C10_BackedIsD24S8 ==
    SingleAspectBacked =>
        /\ Made.format = SingleAspectFormat(last.kind)
        /\ Made.internalFormat = "FORMAT_D24S8"

\* C10 as amended: a Depthbuffer with an Image reports
\* GL_DEPTH_COMPONENT16_OES and a Stencilbuffer GL_STENCIL_INDEX8_OES; the
\* internal format reported is FORMAT_D24S8 in allocate mode and the wrapped
\* Image's internal format in wrap mode (FORMAT_D24S8 only if the Image has
\* it).
C10_BackedFormats ==
    SingleAspectBacked =>
        /\ Made.format = SingleAspectFormat(last.kind)
        /\ last.op = "alloc" => Made.internalFormat = "FORMAT_D24S8"
        /\ last.op = "wrap" => Made.internalFormat = images[Made.image].internalFormat

\* A Stencilbuffer wraps an Image of internal format FORMAT_D16.
C10_Witness ==
    /\ SingleAspectBacked
    /\ last.op = "wrap"
    /\ last.kind = "Stencilbuffer"
    /\ images[Made.image].internalFormat = "FORMAT_D16"

\* --------------------------------------------------------- handle claims
\* the reference count of Image i, 0 when there is no such Image
Refs(imgs, i) == imgs[i].refs

\* The step is a completed setStorage(new) with new not null.
SetStorageStep == last'.op = "setStorage" /\ last'.sid # 0 /\ pc' = "run"

\* What C2 says of a setStorage(new) step: the interface installed before is
\* destroyed, the Image it owned has exactly one reference less and no other
\* Image changed, and the handle now holds new, a live object that was not
\* touched, so that every query is answered from new.
SetStorageSwaps ==
    LET old == rb.inst
        new == last'.sid
        oldImage == IF old.t = "storage" THEN storages[old.s].image ELSE NullImage
    IN  /\ old.t = "storage" => storages'[old.s].life # "live" \/ old.s = new
        /\ old.t = "storage" /\ old.s = new => storages'[new].life # "live"
        /\ old.t = "proxy" => proxyLife' = "dead"
        /\ \A i \in ImageIds :
              Refs(images', i) = Refs(images, i) - (IF i = oldImage THEN 1 ELSE 0)
        /\ rb'.inst = StorageInst(new)
        /\ rb'.life = "alive"
        /\ storages'[new].life = "live"
        /\ storages'[new] = storages[new]
        /\ GetWidth(rb.inst)' = Answer(storages[new].mWidth)
        /\ GetHeight(rb.inst)' = Answer(storages[new].mHeight)
        /\ InstanceGetFormat(rb.inst)' = Answer(storages[new].format)
        /\ GetInternalFormat(rb.inst)' = Answer(storages[new].internalFormat)
        /\ GetSamples(rb.inst)' = Answer(storages[new].mSamples)
        /\ IsShared(rb.inst)' = StorageIsShared(images', storages[new])

\* C2 as stated: every setStorage(new) with new not null destroys the
\* interface installed before and takes one reference from the Image it
\* owned, and afterwards every query is answered by new, a live object.
C2_SetStorageSwaps ==
    [][SetStorageStep => SetStorageSwaps]_vars

\* C2 as amended: the same, for every setStorage(new) with new not null and
\* not the object that is installed already, on a handle whose installed
\* interface is a live object or null.
C2_SetStorageSwapsDistinct ==
    [][(SetStorageStep /\ rb.inst # StorageInst(last'.sid)) => SetStorageSwaps]_vars

\* setStorage has replaced a storage that owned an Image by another storage
\* that owns one.
C2_Witness ==
    /\ pc = "run"
    /\ last.op = "setStorage"
    /\ last.sid # 0
    /\ last.old.t = "storage"
    /\ last.old.s # last.sid
    /\ last.image # NullImage
    /\ rb.inst = StorageInst(last.sid)
    /\ storages[last.sid].life = "live"
    /\ storages[last.sid].image # NullImage

\* C3 as stated, for the handle made over a RenderbufferTexture2D: the
\* addProxyRef calls less the releaseProxy calls the texture has received
\* equal the handle's reference count while the proxy is installed, and are
\* zero once the handle's reference count is back to zero or the handle has
\* been given a storage.
C3_ProxyRefsFollowHandle ==
    (pc = "run" /\ proxyLife # "none") =>
        /\ (rb.life = "alive" /\ rb.inst = ProxyInst) => proxyRefs = rb.refs
        /\ (rb.refs = 0 \/ rb.inst # ProxyInst) => proxyRefs = 0

\* What C4 says of the proxy hooks when mInstance is the proxy: one
\* addProxyRef per addRef, one releaseProxy per release.
ProxyHookForwarded ==
    proxyRefs' = proxyRefs + (IF last'.op = "addRef" THEN 1 ELSE -1)

\* No Image has gained or lost a reference in the step.
NoImageRefChange == \A i \in ImageIds : Refs(images', i) = Refs(images, i)

\* The step is a completed addRef or release of the handle.
RefStep == last'.op \in {"addRef", "release"} /\ pc' = "run"

\* C4 as stated: with the proxy installed each addRef makes one addProxyRef
\* call and each release one releaseProxy call; with a storage installed
\* addRef and release make no call on the texture and change no Image's
\* reference count.
C4_HooksOneForOne ==
    [][RefStep =>
          IF rb.inst = ProxyInst
          THEN ProxyHookForwarded
          ELSE proxyRefs' = proxyRefs /\ NoImageRefChange]_vars

\* C4 as amended: the same, except that the release that takes the handle's
\* last reference destroys the handle with its storage, and the storage's
\* Image, if it has one, loses the one reference the storage held.
C4_HooksOneForOneButLast ==
    [][RefStep =>
          IF rb.inst = ProxyInst
          THEN ProxyHookForwarded
          ELSE /\ proxyRefs' = proxyRefs
               /\ IF last'.op = "release" /\ rb.refs = 1
                  THEN /\ rb'.life = "destroyed"
                       /\ \A i \in ImageIds :
                            Refs(images', i) = Refs(images, i)
                                - (IF i = storages[rb.inst.s].image THEN 1 ELSE 0)
                  ELSE NoImageRefChange]_vars

\* A release that was not the last has been made on a handle whose storage
\* owns an Image.
C4_Witness ==
    /\ pc = "run"
    /\ last.op = "release"
    /\ last.old.t = "storage"
    /\ last.image # NullImage
    /\ rb.life = "alive"
    /\ rb.refs = 1

\* the live storage objects that own Image i
Owners(i) == {s \in StorageIds : storages[s].life = "live" /\ storages[s].image = i}

\* An Image that a live storage owns or that a caller holds a reference to
\* exists, with at least one reference for each of them.
ImagesOutliveHolders ==
    \A i \in ImageIds :
        /\ images[i].refs >= Cardinality(Owners(i)) + held[i]
        /\ (Owners(i) # {} \/ held[i] > 0) => images[i].refs > 0

\* Image i gains n references in the step and no other Image changes.
OnlyImageChange(i, n) ==
    \A j \in ImageIds : Refs(images', j) = Refs(images, j) + (IF j = i THEN n ELSE 0)

\* Each operation on a storage that owns an Image moves the Image's
\* reference count by exactly one: construction and the two accessors add
\* one (the accessors return that Image), destruction takes one.
ImageRefSteps ==
    /\ (last'.op \in {"getRenderTarget", "createSharedImage"} /\ pc' = "run"
            /\ rb.inst.t = "storage" /\ storages[rb.inst.s].image # NullImage)
          => /\ last'.ret = storages[rb.inst.s].image
             /\ OnlyImageChange(last'.ret, 1)
    /\ (last'.op = "wrap" /\ last'.image # NullImage)
          => /\ storages'[last'.sid].image = last'.image
             /\ OnlyImageChange(last'.image, 1)
    /\ (last'.op = "alloc" /\ last'.image # NullImage)
          => /\ storages'[last'.sid].image = last'.image
             /\ Refs(images, last'.image) = 0
             /\ OnlyImageChange(last'.image, 1)
    /\ (last'.op \in {"deleteStorage", "setStorage", "release"} /\ pc' = "run"
            /\ last'.image # NullImage
            /\ (last'.op = "release" => rb'.life = "destroyed"))
          => OnlyImageChange(last'.image, -1)

\* C5: construction of a storage adds one reference to its Image, each
\* getRenderTarget or createSharedImage adds one more and returns that Image,
\* destruction of the storage takes one; so the Image keeps a reference, and
\* exists, as long as a live storage owns it or a caller holds a reference
\* it acquired.
C5_ImageSurvivesHolders ==
    [](ImagesOutliveHolders) /\ [][ImageRefSteps]_vars

\* setStorage has destroyed a storage whose Image a caller still holds: the
\* Image lives on with the caller's reference alone.
C5_Witness ==
    /\ pc = "run"
    /\ last.op = "setStorage"
    /\ last.sid # 0
    /\ last.image # NullImage
    /\ held[last.image] = 1
    /\ Owners(last.image) = {}
    /\ texImage # last.image
    /\ images[last.image].refs = 1

\* ------------------------------------------------------ sharing claims
\* The step is a completed call of accessor op on the handle while a storage
\* that owns an Image is installed.
StorageAccessorStep(op) ==
    /\ last'.op = op
    /\ pc' = "run"
    /\ rb.inst.t = "storage"
    /\ storages[rb.inst.s].image # NullImage

\* C11: on a storage that owns an Image, getRenderTarget leaves an unshared
\* Image unshared, and createSharedImage returns the backing Image with one
\* more reference and isShared() is true afterwards.
C11_SharedOnlyByCreateSharedImage ==
    [][/\ StorageAccessorStep("getRenderTarget") =>
            /\ ~IsShared(rb.inst)'.ub
            /\ ~IsShared(rb.inst).value => ~IsShared(rb.inst)'.value
       /\ StorageAccessorStep("createSharedImage") =>
            /\ ~IsShared(rb.inst)'.ub
            /\ IsShared(rb.inst)'.value
            /\ last'.ret = storages[rb.inst.s].image
            /\ OnlyImageChange(last'.ret, 1)]_vars

\* createSharedImage on the installed storage has returned its Image, now
\* shared, to a caller that holds the reference.
C11_Witness ==
    /\ pc = "run"
    /\ last.op = "createSharedImage"
    /\ last.old.t = "storage"
    /\ last.ret # NullImage
    /\ rb.inst = last.old
    /\ storages[rb.inst.s].image = last.ret
    /\ images[last.ret].shared
    /\ images[last.ret].refs = 2
    /\ held[last.ret] = 1

\* The step created the Image that is in slot i after it.
CreatedInStep(i) ==
    \/ last'.op \in {"texImage", "createImage"} /\ last'.ret = i
    \/ last'.op = "alloc" /\ last'.image = i

\* Image i is the same object before and after the step: it exists in both
\* states and the step did not create it.
SameImage(i) ==
    /\ images[i].refs > 0
    /\ images'[i].refs > 0
    /\ ~CreatedInStep(i)

\* Someone has Image i: a caller holds a reference to it, a live storage
\* keeps it as its backing, or it is the texture's level 0.
Kept(i) == held[i] > 0 \/ Owners(i) # {} \/ texImage = i

\* A shared Image that someone still has after the step is still there and
\* still shared: no storage destroyed in the step took it along.
SharedOutlivesStorages ==
    \A i \in ImageIds :
        (images[i].shared /\ Kept(i)' /\ ~CreatedInStep(i)) =>
            (images'[i].refs > 0 /\ images'[i].shared)

\* A storage that reports isShared() true before the step and is there
\* after it reports true after it.
StorageStaysShared ==
    \A s \in StorageIds :
        (/\ storages[s].life = "live"
         /\ storages'[s].life = "live"
         /\ StorageIsShared(images, storages[s]) = Answer(TRUE)) =>
            StorageIsShared(images, storages[s])' = Answer(TRUE)

\* C12: an Image that createSharedImage marked stays shared as long as it
\* exists, and it exists as long as a caller, a storage or the texture has
\* it, whatever is done in between: getRenderTarget, createSharedImage,
\* releases, wrapping by another storage, setStorage or destruction of the
\* storage that marked it. A storage that reported it shared goes on doing
\* so, and a storage constructed over it reports isShared() true.
C12_SharedIsMonotone ==
    [][/\ \A i \in ImageIds :
            (images[i].shared /\ SameImage(i)) => images'[i].shared
       /\ SharedOutlivesStorages
       /\ StorageStaysShared
       /\ (last'.op = "wrap" /\ last'.image # NullImage /\ images[last'.image].shared) =>
            \E s \in StorageIds :
                /\ s = last'.sid
                /\ ~IsShared(StorageInst(s))'.ub
                /\ IsShared(StorageInst(s))'.value]_vars

\* The storage that marked the Image has been replaced, by setStorage, by a
\* new storage that wraps the same Image, after the caller gave its
\* reference back: the Image lives by the new storage's reference alone and
\* the handle still reports it shared.
C12_Witness ==
    /\ pc = "run"
    /\ last.op = "setStorage"
    /\ last.image # NullImage
    /\ last.old.t = "storage"
    /\ rb.inst.t = "storage"
    /\ rb.inst # last.old
    /\ storages[rb.inst.s].image = last.image
    /\ held[last.image] = 0
    /\ texImage # last.image
    /\ images[last.image].refs = 1
    /\ images[last.image].shared
    /\ IsShared(rb.inst) = Answer(TRUE)

\* ------------------------------------------------- installed interface
\* The handle's mInstance is not null and points to a live realization.
InstalledOk == rb.life = "alive" => (rb.inst # NullInst /\ InstLive(rb.inst))

\* C13 as stated: a handle constructed over an interface has a non-null,
\* live interface installed, and every step keeps it so, whatever setStorage
\* is called with.
C13_AlwaysInstalled ==
    /\ rb.inst # NullInst => InstalledOk
    /\ [][InstalledOk => InstalledOk']_vars

\* The step is a setStorage call with the null pointer or with the object
\* that is installed already.
SetStorageMisused ==
    /\ last'.op = "setStorage"
    /\ last'.sid = 0 \/ rb.inst = StorageInst(last'.sid)

\* C13 as amended: the handle is constructed over a live interface, and
\* every addRef, release, query and setStorage keeps the installed interface
\* non-null and live, but for a setStorage with the null pointer or with the
\* object that is installed already.
C13_InstalledUnlessMisused ==
    /\ rb.inst # NullInst => InstalledOk
    /\ [][(InstalledOk /\ ~SetStorageMisused) => InstalledOk']_vars

\* A referenced handle made over the texture proxy has been given a storage:
\* the proxy is destroyed and the storage is installed and live.
C13_Witness ==
    /\ pc = "run"
    /\ last.op = "setStorage"
    /\ last.sid # 0
    /\ last.old = ProxyInst
    /\ proxyLife = "dead"
    /\ rb.life = "alive"
    /\ rb.refs > 0
    /\ rb.inst = StorageInst(last.sid)
    /\ InstLive(rb.inst)

\* ---------------------------------------------------- reported geometry
\* The last call was a constructor, and the object it built is there.
JustMade == last.op \in {"alloc", "wrap"} /\ Made.life = "live"

\* The last call was an allocate-mode constructor that did not ask the
\* device, because the width or the height was not positive.
AllocNotRequested ==
    /\ last.op = "alloc"
    /\ ~(last.width > 0 /\ last.height > 0)

\* The last call was a wrap-mode constructor over the null Image.
WrappedNull == last.op = "wrap" /\ last.image = NullImage

\* C14 as stated: every storage reports a width and a height that are not
\* negative, and a storage whose allocation failed or was never requested
\* reports width 0 and height 0.
C14_DimsNonNegative ==
    /\ \A s \in StorageIds :
          storages[s].life = "live" => storages[s].mWidth >= 0 /\ storages[s].mHeight >= 0
    /\ (JustMade /\ (AllocFailed \/ AllocNotRequested \/ WrappedNull)) =>
          Made.mWidth = 0 /\ Made.mHeight = 0

\* C14 as amended: a storage that has a backing Image reports a positive
\* width and height; one whose allocation failed or that wraps the null
\* Image reports 0 and 0; one constructed in allocate mode with a width or
\* height that is not positive reports the two arguments as they were
\* passed, negative values included.
C14_DimsAsConstructed ==
    /\ \A s \in StorageIds :
          storages[s].life = "live" =>
              IF storages[s].image # NullImage
              THEN storages[s].mWidth > 0 /\ storages[s].mHeight > 0
              ELSE ~(storages[s].mWidth > 0 /\ storages[s].mHeight > 0)
    /\ (JustMade /\ (AllocFailed \/ WrappedNull)) =>
          Made.mWidth = 0 /\ Made.mHeight = 0
    /\ (JustMade /\ AllocNotRequested) =>
          Made.mWidth = last.width /\ Made.mHeight = last.height

\* A depth-stencil storage constructed with a negative width and a positive
\* height reports both as passed.
C14_Witness ==
    /\ JustMade
    /\ AllocNotRequested
    /\ last.kind \in DepthKinds
    /\ last.width < 0
    /\ last.height > 0
    /\ Made.mWidth = last.width
    /\ Made.mHeight = last.height
    /\ Made.image = NullImage

\* ------------------------------------------------- isShared without Image
\* C15: isShared() of a storage has a value, the Image's flag, exactly when
\* the storage has a backing Image; on a storage without one, called on the
\* object or through the handle it is installed in, it is a call through
\* the null pointer and returns nothing, false included.
C15_IsSharedNeedsImage ==
    pc = "run" =>
        /\ \A s \in StorageIds :
              storages[s].life = "live" =>
                  IF storages[s].image = NullImage
                  THEN StorageIsShared(images, storages[s]) = NoAnswer
                  ELSE StorageIsShared(images, storages[s])
                          = Answer(images[storages[s].image].shared)
        /\ (rb.life = "alive" /\ rb.inst.t = "storage" /\ InstLive(rb.inst)) =>
              IsShared(rb.inst).ub = (storages[rb.inst.s].image = NullImage)

\* A storage without an Image (its allocation failed, or it wraps null) has
\* been installed by setStorage in a handle that is referenced: isShared()
\* through the handle is the call through the null pointer.
C15_Witness ==
    /\ pc = "run"
    /\ last.op = "setStorage"
    /\ last.sid # 0
    /\ rb.life = "alive"
    /\ rb.refs > 0
    /\ rb.inst = StorageInst(last.sid)
    /\ InstLive(rb.inst)
    /\ storages[rb.inst.s].image = NullImage
    /\ storages[rb.inst.s].mWidth = 0
    /\ IsShared(rb.inst).ub

\* ------------------------------------------------ device calls and errors
\* C16: an allocate-mode constructor asks the device once when the width and
\* the height are positive and not at all otherwise, and raises
\* GL_OUT_OF_MEMORY once exactly when it asked and got no surface; no other
\* operation asks the device or raises an error.
C16_OneRequestOneError ==
    /\ last.op = "alloc" =>
          /\ last.devCalls = (IF last.width > 0 /\ last.height > 0 THEN 1 ELSE 0)
          /\ last.errs = (IF last.devCalls = 1 /\ last.image = NullImage THEN 1 ELSE 0)
    /\ last.op # "alloc" => (last.devCalls = 0 /\ last.errs = 0)

\* A Stencilbuffer was constructed with a positive width and height and the
\* device had no surface for it: one request, one error.
C16_Witness ==
    /\ AllocFailed
    /\ last.kind = "Stencilbuffer"
    /\ last.devCalls = 1
    /\ last.errs = 1
    /\ Made.image = NullImage

\* -------------------------------------------------- frame of setStorage
\* C17: a setStorage call that returns leaves the handle's name, its
\* existence and its reference count as they were, and the texture has
\* received no addProxyRef and no releaseProxy call.
C17_SetStorageKeepsHandle ==
    [][(last'.op = "setStorage" /\ pc' = "run") =>
          /\ rb'.name = rb.name
          /\ rb'.life = rb.life
          /\ rb'.refs = rb.refs
          /\ proxyRefs' = proxyRefs]_vars

\* A handle with two references has had its storage replaced by another:
\* it is the same handle, still with two references.
C17_Witness ==
    /\ pc = "run"
    /\ last.op = "setStorage"
    /\ last.sid # 0
    /\ last.old.t = "storage"
    /\ last.old.s # last.sid
    /\ rb.life = "alive"
    /\ rb.name = RenderbufferName
    /\ rb.refs = 2
    /\ rb.inst = StorageInst(last.sid)

\* ---------------------------------------------------- texture forwarding
\* The handle is alive over the live texture proxy.
ProxyInstalled ==
    pc = "run" /\ rb.life = "alive" /\ rb.inst = ProxyInst /\ proxyLife = "live"

\* Each query through the handle is what the texture answers now for
\* GL_TEXTURE_2D, level 0, and getSamples() is 0.
ProxyQueriesForwarded ==
    /\ GetWidth(rb.inst) = Answer(Texture2DGetWidth(images, texImage))
    /\ GetHeight(rb.inst) = Answer(Texture2DGetHeight(images, texImage))
    /\ InstanceGetFormat(rb.inst) = Answer(Texture2DGetFormat(images, texImage))
    /\ GetInternalFormat(rb.inst) = Answer(Texture2DGetInternalFormat(images, texImage))
    /\ IsShared(rb.inst) = Texture2DIsShared(images, texImage)
    /\ GetSamples(rb.inst) = Answer(0)

\* After the texture's level 0 was specified again, the queries through the
\* handle answer for the new Image of the level.
ProxySeesNewLevel ==
    (last'.op = "texImage" /\ ProxyInstalled) =>
        /\ texImage' = last'.ret
        /\ GetWidth(rb.inst)' = Answer(images'[texImage'].width)
        /\ GetHeight(rb.inst)' = Answer(images'[texImage'].height)
        /\ GetInternalFormat(rb.inst)' = Answer(images'[texImage'].internalFormat)
        /\ IsShared(rb.inst)' = Answer(FALSE)
        /\ GetSamples(rb.inst)' = Answer(0)

\* The accessors through the handle return what the texture returns for the
\* level: its Image with one more reference, marked shared by
\* createSharedImage, or null.
ProxyAccessorsForwarded ==
    /\ (last'.op = "getRenderTarget" /\ pc' = "run" /\ ProxyInstalled) =>
          /\ last'.ret = texImage
          /\ images' = Texture2DGetRenderTarget(images, texImage).imgs
          /\ texImage # NullImage => OnlyImageChange(texImage, 1)
    /\ (last'.op = "createSharedImage" /\ pc' = "run" /\ ProxyInstalled) =>
          /\ last'.ret = texImage
          /\ images' = Texture2DCreateSharedImage(images, texImage).imgs
          /\ texImage # NullImage =>
                (OnlyImageChange(texImage, 1) /\ IsShared(rb.inst)' = Answer(TRUE))

\* C18: with the RenderbufferTexture2D installed, every query through the
\* handle equals the texture's present answer for GL_TEXTURE_2D, level 0, a
\* change of the level is seen by the next query, the accessors return what
\* the texture returns, and getSamples() is 0.
C18_ProxyForwardsLive ==
    /\ [](ProxyInstalled => ProxyQueriesForwarded)
    /\ [][ProxySeesNewLevel /\ ProxyAccessorsForwarded]_vars

\* The level's Image was handed out shared through the handle and the level
\* was then specified again: the caller still holds the old Image, shared,
\* and the handle answers for the new one, which is not.
C18_Witness ==
    /\ ProxyInstalled
    /\ last.op = "texImage"
    /\ texImage = last.ret
    /\ \E i \in ImageIds : i # texImage /\ held[i] = 1 /\ images[i].shared
    /\ IsShared(rb.inst) = Answer(FALSE)
    /\ GetWidth(rb.inst) = Answer(images[texImage].width)

\* ------------------------------------------------------- order of the hook
\* C19: in a completed addRef or release the proxy hook of the installed
\* interface ran before the handle's count changed: it found the handle
\* alive, with the count and the live interface of before the call, and the
\* texture proxy received it; so also in the release that takes the last
\* reference and destroys the handle.
C19_HookBeforeCount ==
    [][RefStep =>
          /\ InstLive(rb.inst)
          /\ last'.seen = Seen(rb)
          /\ last'.seen.life = "alive"
          /\ rb.inst = ProxyInst => ProxyHookForwarded
          /\ (last'.op = "release" /\ rb.refs = 1) =>
                (rb'.life = "destroyed" /\ last'.seen.refs = 1)
          /\ (last'.op = "release" /\ rb.refs > 1) => rb'.refs = last'.seen.refs - 1
          /\ last'.op = "addRef" => rb'.refs = last'.seen.refs + 1]_vars

\* The last reference of a handle over the texture proxy has been released:
\* the handle and the proxy are destroyed, and releaseProxy reached the
\* texture while both were alive.
C19_Witness ==
    /\ pc = "run"
    /\ last.op = "release"
    /\ last.old = ProxyInst
    /\ rb.life = "destroyed"
    /\ proxyLife = "dead"
    /\ last.seen.life = "alive"
    /\ last.seen.refs = 1
    /\ last.seen.inst = ProxyInst
    /\ proxyRefs = 0

====
